---- MODULE Spec2Model ----
(***************************************************************************)
(* Media acquisition and transcoding orchestrator of the video banner bot  *)
(* (src/main.py, class VideoLogoBotPro).                                   *)
(*                                                                         *)
(* Handlers are asyncio coroutines.  A handler runs without interruption   *)
(* from one `await` to the next; at an `await` it is suspended and the     *)
(* dispatcher may start or resume any other handler invocation, of the     *)
(* same user or of another one.  Every action below is one such segment:   *)
(* it resumes a handler at the await it is suspended in, with one of the   *)
(* results the awaited call can have, and runs it to its next await or to  *)
(* its end.  A call of the message channel (reply_text, edit_text, ...)    *)
(* returns or raises; the two transports and the transcoder are opaque     *)
(* and hand back any result they can; os.unlink may raise.  Spec lets the   *)
(* handler invocations of one user overlap in every way; SpecSequential is *)
(* the application as run() builds it, which takes up the next update only *)
(* when the handler of the last one has returned.                          *)
(*                                                                         *)
(* The temp directory is modelled for the paths that some live object      *)
(* (a dictionary entry, a local of a running handler, a transcoder run)    *)
(* still names.  A file nothing names any more can never be touched again  *)
(* (temp names are fresh), so it is dropped from `fs`; an invocation       *)
(* records what it left behind when it ends.  Temp names are arbitrary:    *)
(* after every step the names in use are renumbered 1, 2, ... in the order *)
(* in which the program's objects name them.  `fs` keeps whether a file    *)
(* exists; its size is read in the step that writes it.                    *)
(*                                                                         *)
(* SystemStats.errors_count is kept as the increments each invocation      *)
(* makes (field `errors`): the counter is their sum.  The other counters   *)
(* are the variable `stats`; they grow without bound, so only SpecStats    *)
(* follows them, up to MaxProcessed videos; in the other specifications    *)
(* `stats` is Untracked, which stands for any value of the counters.       *)
(***************************************************************************)
EXTENDS Integers, Sequences, FiniteSets, TLC

\* ---------------------------------------------------------------- bounds
\* Names the temp directory can hold at once.
MaxFiles == 6
\* Transcoder runs that go on after their job stopped waiting for them.
MaxAbandoned == 1
\* Videos counted in stats.processed_videos where the counters are followed.
MaxProcessed == 2

\* ------------------------------------------------------ program constants
\* BotConfig.MAX_FILE_SIZE, in GiB.
MAX_FILE_SIZE == 2
\* Line 556: the output size above which the result goes out as a document,
\* in MiB.
DocumentThreshold == 50

\* User identities.
Users == {"A", "B"}
\* The user whose updates Spec follows, under every interleaving of their
\* handlers; SpecSequential takes the updates of every user, one at a time.
Active == {"A"}
\* Handler invocations the dispatcher has in flight at once.
Slots == {1, 2}
Paths == 1..MaxFiles
\* None, for a path-valued local or a missing dictionary key.
NoPath == 0
\* None, for the file_size of a video that reports none.
NoSize == -1
\* user_states.get(user_id) of a user never seen.
Unset == "unset"
BotState == {"IDLE", "WAITING_BANNER", "WAITING_VIDEO", "PROCESSING"}
\* What a write leaves at a path: no file, a zero-byte file, a non-empty file.
FileStates == {"absent", "empty", "data"}
\* file_size values a video can report: at the limit and just above it.
FileSizes == {MAX_FILE_SIZE, MAX_FILE_SIZE + 1}
\* Sizes of a non-empty output file: at the document threshold and just
\* above it.
OutputSizes == {DocumentThreshold, DocumentThreshold + 1}
\* total_time values of a job, in seconds.
Elapsed == {1, 2}
\* float('inf'): above every processing time.
Inf == 1000000

VARIABLES
    user_states,       \* self.user_states: user -> BotState, Unset when no key
    user_banners,      \* self.user_banners: user -> path, NoPath when no key
    processing_users,  \* keys of self.processing_users
    user_client,       \* self.user_client is not None
    fs,                \* the temp directory: path -> the file exists
    tasks,             \* handler invocations: slot -> activation record
    abandoned,         \* output paths of transcoder runs nobody waits for
    stats              \* self.stats, without start_time and errors_count

vars == <<user_states, user_banners, processing_users, user_client, fs, tasks,
          abandoned, stats>>

\* An empty slot.  video_path, output_path, banner_path are the handler's
\* locals; log lists the transport calls of its smart_download call and dest
\* is what the destination held when that call returned ("" before and
\* after); file_size, output_size and total_time are the locals of these
\* names (0 before they are read) and
\* sent the attachment the handler has sent ("" for none); the rest is
\* filled in when the invocation ends: how it ended, whether an
\* exception left it, how often it (or error_handler for it) incremented
\* errors_count, and what it left on disk of the files it had to release
\* (see Residue).
NoTask == [h |-> "none", u |-> "", pc |-> "", accepted |-> FALSE,
           video_path |-> NoPath, output_path |-> NoPath, banner_path |-> NoPath,
           log |-> << >>, dest |-> "", file_size |-> 0, output_size |-> 0,
           total_time |-> 0, sent |-> "",
           outcome |-> "", escaped |-> FALSE, errors |-> 0,
           residue |-> "clean"]

\* ---------------------------------------------------------------- helpers
Exists(f, p) == p # NoPath /\ f[p]

Range(s) == {s[i] : i \in 1..Len(s)}

RECURSIVE SeqOf(_)
\* The elements of a set, one after the other.
SeqOf(S) == IF S = {} THEN << >>
            ELSE LET x == CHOOSE y \in S : \A z \in S : y <= z
                 IN  <<x>> \o SeqOf(S \ {x})

UserSeq == LET RECURSIVE Enum(_)
               Enum(S) == IF S = {} THEN << >>
                          ELSE LET x == CHOOSE y \in S : TRUE
                               IN  <<x>> \o Enum(S \ {x})
           IN  Enum(Users)

SlotSeq == SeqOf(Slots)

\* The paths the banner dictionary `ub`, the activation records `ts` and the
\* abandoned transcoder runs `ab` name, object by object.
RefSeq(ub, ts, ab) ==
    [i \in 1..Len(UserSeq) |-> ub[UserSeq[i]]]
    \o [i \in 1..(3 * Cardinality(Slots)) |->
          LET tk == ts[SlotSeq[((i - 1) \div 3) + 1]]
          IN  CASE (i - 1) % 3 = 0 -> tk.video_path
                [] (i - 1) % 3 = 1 -> tk.output_path
                [] OTHER -> tk.banner_path]
    \o SeqOf(ab)

RECURSIVE FirstOccurrences(_, _)
\* The paths of `s` in the order of their first occurrence, after `acc`.
FirstOccurrences(s, acc) ==
    IF s = << >> THEN acc
    ELSE FirstOccurrences(Tail(s),
            IF Head(s) = NoPath \/ Head(s) \in Range(acc) THEN acc
            ELSE Append(acc, Head(s)))

Refs(ub, ts, ab) == Range(RefSeq(ub, ts, ab)) \ {NoPath}

FreePaths == Paths \ Refs(user_banners, tasks, abandoned)

Min(S) == CHOOSE x \in S : \A y \in S : x <= y

\* tempfile.NamedTemporaryFile(delete=False): a name that does not exist yet,
\* created as a zero-byte file.
NewTempName(free) == Min(free)

\* Position of path `p` in `order`, NoPath when it is not in it.
Name(order, p) ==
    IF \E i \in 1..Len(order) : order[i] = p
    THEN CHOOSE i \in 1..Len(order) : order[i] = p
    ELSE NoPath

\* The state `us`, `ub`, `pu`, `ts`, `ab`, `g`, `st` with the names in use
\* renumbered in the order `order`.
Renumbered(us, ub, pu, ts, ab, g, st, order) ==
    /\ user_states' = us
    /\ user_banners' = [u \in Users |-> Name(order, ub[u])]
    /\ processing_users' = pu
    /\ tasks' = [t \in Slots |->
          [ts[t] EXCEPT !.video_path = Name(order, @),
                        !.output_path = Name(order, @),
                        !.banner_path = Name(order, @)]]
    /\ abandoned' = {Name(order, p) : p \in ab}
    /\ fs' = [i \in Paths |-> i <= Len(order) /\ g[order[i]]]
    /\ stats' = st
    /\ UNCHANGED user_client

\* The state after a step that leaves the dictionaries as `us`, `ub`, `pu`,
\* the activation records as `ts`, the abandoned transcoder runs as `ab`,
\* the temp directory as `g` and the counters as `st`.
CommitStats(us, ub, pu, ts, ab, g, st) ==
    \E v \in {[us |-> us, ub |-> ub, pu |-> pu, ts |-> ts, ab |-> ab,
               g |-> g, st |-> st]} :
        IF RefSeq(v.ub, v.ts, v.ab) = RefSeq(user_banners, tasks, abandoned)
        THEN /\ user_states' = v.us
             /\ user_banners' = v.ub
             /\ processing_users' = v.pu
             /\ tasks' = v.ts
             /\ abandoned' = v.ab
             /\ fs' = v.g
             /\ stats' = v.st
             /\ UNCHANGED user_client
        ELSE \E order \in {FirstOccurrences(RefSeq(v.ub, v.ts, v.ab), << >>)} :
                 Renumbered(v.us, v.ub, v.pu, v.ts, v.ab, v.g, v.st, order)

\* The same for a step that leaves the counters alone.
Commit(us, ub, pu, ts, ab, g) == CommitStats(us, ub, pu, ts, ab, g, stats)

\* A handler suspends at its next await as `tk`, leaving the temp directory
\* as `g` and every dictionary as it is.
Suspend(t, tk, g) ==
    Commit(user_states, user_banners, processing_users,
           [tasks EXCEPT ![t] = tk], abandoned, g)

Idle(t) == tasks[t].h = "none"
\* The dispatcher starts a handler in the lowest empty slot.
FreeSlot(t) == Idle(t) /\ \A s \in Slots : s < t => ~Idle(s)

\* The paths of `ps` that were there in `f` and still are in `g`.
NotDeleted(f, g, ps) == {p \in ps \ {NoPath} : f[p] /\ g[p]}

\* The paths of `ps` that are there in `g`.
Present(g, ps) == {p \in ps \ {NoPath} : g[p]}

\* What a release that was handed `given` and turned the temp directory `f`
\* into `g` left of the files `ps`: nothing, only files on which os.unlink
\* raised, or a file it did not try to delete.
Residue(f, g, ps, given) ==
    IF Present(g, ps) = {} THEN "clean"
    ELSE IF Present(g, ps) \subseteq NotDeleted(f, g, given) THEN "unlink_failed"
    ELSE "leaked"

\* cleanup_temp_files(*file_paths): every path that is given and exists is
\* unlinked; an unlink that raises is logged and the file stays.  The result
\* is every temp directory the call can leave behind.
cleanup_temp_files(f, ps) ==
    {[p \in Paths |-> IF p \in ps /\ f[p] THEN p \in kept ELSE f[p]] :
        kept \in SUBSET {p \in ps \ {NoPath} : f[p]}}

\* A handler invocation that has returned (or raised): kept, without its
\* locals, until the dispatcher drops it.  error_handler counts an
\* exception that left the handler.
Done(tk, outcome, escaped) ==
    [NoTask EXCEPT !.h = tk.h, !.u = tk.u, !.accepted = tk.accepted,
                   !.pc = "done", !.outcome = outcome, !.escaped = escaped,
                   !.errors = tk.errors + (IF escaped THEN 1 ELSE 0),
                   !.residue = tk.residue]

\* SystemStats.errors_count += 1
CountError(tk) == [tk EXCEPT !.errors = @ + 1]

\* ------------------------------------------------------------ SystemStats
\* Lines 68-74: the counters of a new SystemStats.
SystemStats ==
    [processed_videos |-> 0, total_processing_time |-> 0,
     largest_file_size |-> 0, fastest_processing_time |-> Inf]

\* The counters where they are not followed: any value.
Untracked ==
    [processed_videos |-> -1, total_processing_time |-> -1,
     largest_file_size |-> -1, fastest_processing_time |-> Inf]

\* An update that takes the last processing time for the fastest.
update_last_time(s, processing_time, file_size) ==
    [processed_videos |-> s.processed_videos + 1,
     total_processing_time |-> s.total_processing_time + processing_time,
     largest_file_size |-> IF s.largest_file_size >= file_size
                           THEN s.largest_file_size ELSE file_size,
     fastest_processing_time |-> processing_time]

\* Lines 76-80: update_processing_stats, one call; it has no await in it.
update_processing_stats(s, processing_time, file_size) ==
    [processed_videos |-> s.processed_videos + 1,
     total_processing_time |-> s.total_processing_time + processing_time,
     largest_file_size |-> IF s.largest_file_size >= file_size
                           THEN s.largest_file_size ELSE file_size,
     fastest_processing_time |->
         IF s.fastest_processing_time <= processing_time
         THEN s.fastest_processing_time ELSE processing_time]

\* Line 534: self.stats after the call, where the counters are followed.
Recorded(s, processing_time, file_size) ==
    IF s = Untracked THEN s
    ELSE update_processing_stats(s, processing_time, file_size)

\* ------------------------------------------------------------------- Init
Init ==
    /\ user_states = [u \in Users |-> Unset]
    /\ user_banners = [u \in Users |-> NoPath]
    /\ processing_users = {}
    /\ user_client \in BOOLEAN
    /\ fs = [p \in Paths |-> FALSE]
    /\ tasks = [t \in Slots |-> NoTask]
    /\ abandoned = {}
    /\ stats = Untracked

\* ---------------------------------------------------------- start_command
\* An entry command that keeps the banner entry.
ReleaseBannerKeep(ub, u) == ub

\* A release that empties the whole dictionary.
ReleaseBannerAll(ub, u) == [v \in Users |-> NoPath]

\* Lines 293-295: a stored banner is released and its entry deleted.
ReleaseBanner(ub, u) == [ub EXCEPT ![u] = NoPath]

\* Lines 289-335: the state is reset, a stored banner is released, and the
\* welcome message is being sent.
start_command(t, u) ==
    /\ FreeSlot(t)
    /\ \E g \in cleanup_temp_files(fs, {user_banners[u]}) :
        Commit([user_states EXCEPT ![u] = "IDLE"],
               ReleaseBanner(user_banners, u),
               processing_users,
               [tasks EXCEPT ![t] =
                  [NoTask EXCEPT !.h = "start", !.u = u, !.pc = "sc_reply",
                                 !.accepted = user_banners[u] # NoPath,
                                 !.residue = Residue(fs, g, {user_banners[u]},
                                                     {user_banners[u]})]],
               abandoned, g)

\* Lines 335-341: reply_text returned, or raised and left the handler.
start_command_resume(t) ==
    /\ tasks[t].pc = "sc_reply"
    /\ \E ok \in BOOLEAN :
        /\ user_states' = IF ok THEN [user_states EXCEPT ![tasks[t].u] = "WAITING_BANNER"]
                          ELSE user_states
        /\ tasks' = [tasks EXCEPT ![t] =
              Done(@, IF ok THEN "started" ELSE "error", ~ok)]
    /\ UNCHANGED <<user_banners, processing_users, user_client, fs, abandoned,
                   stats>>

\* -------------------------------------------------------- button_callback
\* Lines 658-661: the callback query is being answered.
button_callback(t, u) ==
    /\ FreeSlot(t)
    /\ tasks' = [tasks EXCEPT ![t] =
          [NoTask EXCEPT !.h = "button", !.u = u, !.pc = "bc_answer"]]
    /\ UNCHANGED <<user_states, user_banners, processing_users, user_client,
                   fs, abandoned, stats>>

\* Lines 663-675, data "send_banner" (the other buttons, like /help and
\* /stats, only show a page and touch no session): the state is set and the
\* message edited.
button_callback_resume(t) ==
    /\ tasks[t].pc = "bc_answer"
    /\ \E answered \in BOOLEAN, edited \in BOOLEAN :
        /\ user_states' =
              IF answered
              THEN [user_states EXCEPT ![tasks[t].u] = "WAITING_BANNER"]
              ELSE user_states
        /\ tasks' = [tasks EXCEPT ![t] =
              Done(@, IF answered /\ edited THEN "button" ELSE "error",
                   ~(answered /\ edited))]
    /\ UNCHANGED <<user_banners, processing_users, user_client, fs, abandoned,
                   stats>>

\* ------------------------------------------- handle_banner, after download
\* Lines 402-404: the except clause is sending its reply.
banner_except(tk) == [tk EXCEPT !.pc = "hb_exc", !.log = << >>, !.dest = ""]

\* Line 386: the assignment replaces the path that was stored; the file of
\* that path is not unlinked, and nothing names it any more.
Overwritten(f, stored, banner_path) ==
    IF stored # banner_path /\ Exists(f, stored) THEN "leaked" ELSE "clean"

\* Lines 381-400, after smart_download returned `res` and left the temp
\* directory as `f`: a failed download is reported (the temp file is
\* released once the report is out); a successful one stores the path and
\* reports it.
banner_downloaded(t, tk, f, res) ==
    Commit(user_states,
           IF res THEN [user_banners EXCEPT ![tk.u] = tk.banner_path] ELSE user_banners,
           processing_users,
           [tasks EXCEPT ![t] =
              [tk EXCEPT !.pc = IF res THEN "hb_ok_edit" ELSE "hb_fail_edit",
                         !.log = << >>,
                         !.residue = IF res THEN Overwritten(f, user_banners[tk.u],
                                                             tk.banner_path)
                                     ELSE @]],
           abandoned, f)

\* -------------------------------------------- handle_video, after download
\* Lines 579-582: the except clause is sending its reply.
video_except(tk) ==
    [tk EXCEPT !.pc = "hv_exc", !.log = << >>, !.dest = "", !.output_size = 0,
               !.total_time = 0, !.sent = ""]

\* Lines 498-512, after smart_download returned `res`: a failed download is
\* reported; after a successful one the stored banner is looked up (KeyError
\* when the entry is gone) and the status message edited.
video_downloaded(t, tk, f, res) ==
    Suspend(t,
        IF ~res THEN [tk EXCEPT !.pc = "hv_dlfail_edit", !.log = << >>]
        ELSE IF user_banners[tk.u] = NoPath
             THEN [video_except(tk) EXCEPT !.dest = tk.dest]
        ELSE [tk EXCEPT !.pc = "hv_proc_edit", !.log = << >>,
                        !.banner_path = user_banners[tk.u]],
        f)

\* What follows smart_download in the handler that called it.
AfterDownload(t, tk, f, res) ==
    IF tk.h = "banner" THEN banner_downloaded(t, tk, f, res)
    ELSE video_downloaded(t, tk, f, res)

\* --------------------------------------------------------- smart_download
\* output_path of the call.
Dest(tk) == IF tk.h = "banner" THEN tk.banner_path ELSE tk.video_path

\* The temp directory `f` after a transport left `w` at path `p`.
Written(f, p, w) == [f EXCEPT ![p] = (w # "absent")]

\* A test that is content with a file that is there.
ExistsOnly(w) == w # "absent"

\* os.path.exists(output_path) and os.path.getsize(output_path) > 0
ExistsNonEmpty(w) == w # "absent" /\ w = "data"

\* Lines 204-219: _download_with_bot_api resolves the file id (the handlers
\* are registered for photo, video and document messages, each of which has
\* one) and awaits get_file and download_to_drive.
StartBotApi(tk) == [tk EXCEPT !.pc = "dl_bot", !.log = Append(@, "bot")]

\* Lines 171-178: _download_with_user_client starts with get_messages.
StartUserClient(tk) == [tk EXCEPT !.pc = "dl_get", !.log = Append(@, "get")]

\* A downloader that goes for the user client whether there is one or not.
BeginDownloadPrimary(tk, client) == StartUserClient(tk)

\* Lines 156-162: the user client is tried first when there is one.
BeginDownload(tk, client) == IF client THEN StartUserClient(tk) ELSE StartBotApi(tk)

\* Lines 196-198: FloodWait is answered by asyncio.sleep(e.value).
FloodWait(tk) == [tk EXCEPT !.pc = "dl_sleep", !.log = Append(@, "sleep")]

\* A downloader that tries the user client again after the sleep.
AfterSleepRetry(tk) == StartUserClient(tk)

\* Lines 199 and 162: after the sleep the attempt has failed, and the Bot
\* API is next.
AfterSleep(tk) == StartBotApi(tk)

\* Line 194: the user client's attempt counts only if download_media named
\* a file and the destination is there and not empty.
UserClientResult(r, w) == r = "path" /\ ExistsNonEmpty(w)

\* Line 224: the Bot API's attempt counts only if nothing raised and the
\* destination is there and not empty.
BotApiResult(r, w) == r = "ok" /\ ExistsNonEmpty(w)

\* Lines 178-181: get_messages returned a message, returned nothing, or raised.
download_get_messages(t) ==
    /\ tasks[t].pc = "dl_get"
    /\ \E r \in {"message", "none", "flood", "error"} :
        Suspend(t, CASE r = "message" ->
                          [tasks[t] EXCEPT !.pc = "dl_media", !.log = Append(@, "media")]
                     [] r = "flood" -> FloodWait(tasks[t])
                     [] OTHER -> StartBotApi(tasks[t]),
                fs)

\* Lines 188-202: download_media returned a path or nothing, or raised; `w` is
\* what it left at the destination.
download_media(t) ==
    /\ tasks[t].pc = "dl_media"
    /\ \E r \in {"path", "none", "flood", "error"}, w \in FileStates :
        LET f == Written(fs, Dest(tasks[t]), w)
        IN  IF UserClientResult(r, w)
            THEN AfterDownload(t, [tasks[t] EXCEPT !.dest = w], f, TRUE)
            ELSE Suspend(t, IF r = "flood" THEN FloodWait(tasks[t])
                            ELSE StartBotApi(tasks[t]), f)

\* Lines 198-199: the sleep is over.
download_sleep(t) ==
    /\ tasks[t].pc = "dl_sleep"
    /\ Suspend(t, AfterSleep(tasks[t]), fs)

\* Lines 218-228: get_file and download_to_drive returned, or one of them
\* raised; `w` is what is at the destination then.
download_bot_api(t) ==
    /\ tasks[t].pc = "dl_bot"
    /\ \E r \in {"ok", "error"}, w \in FileStates :
        AfterDownload(t, [tasks[t] EXCEPT !.dest = w],
                      Written(fs, Dest(tasks[t]), w), BotApiResult(r, w))

\* ---------------------------------------------------------- handle_banner
\* Line 347: a banner is taken only while one is awaited.
BannerAccepted(st) == st = "WAITING_BANNER"

\* Lines 345-354: anything else is told to use /start (outside the try: a
\* failing reply leaves the handler).
handle_banner(t, u) ==
    /\ FreeSlot(t)
    /\ IF ~BannerAccepted(user_states[u])
       THEN \E ok \in BOOLEAN :
              tasks' = [tasks EXCEPT ![t] =
                    Done([NoTask EXCEPT !.h = "banner", !.u = u], "rejected", ~ok)]
       ELSE tasks' = [tasks EXCEPT ![t] =
                    [NoTask EXCEPT !.h = "banner", !.u = u, !.pc = "hb_msg",
                                   !.accepted = TRUE]]
    /\ UNCHANGED <<user_states, user_banners, processing_users, user_client, fs,
                   abandoned, stats>>

\* Lines 354-379: the status message is out; the temp file is created and
\* the download starts.
handle_banner_download(t) ==
    /\ tasks[t].pc = "hb_msg"
    /\ \/ Suspend(t, banner_except(tasks[t]), fs)
       \/ /\ FreePaths # {}
          /\ LET p == NewTempName(FreePaths)
             IN  Suspend(t, BeginDownload([tasks[t] EXCEPT !.banner_path = p], user_client),
                         [fs EXCEPT ![p] = TRUE])

\* A failure exit that returns without releasing the temp file.
FailedBannerKept(tk) == {}

\* Line 383: self.cleanup_temp_files(banner_path)
FailedBannerPaths(tk) == {tk.banner_path}

\* Lines 381-384: the failure is reported, the temp file released.
handle_banner_failed(t) ==
    /\ tasks[t].pc = "hb_fail_edit"
    /\ \/ Suspend(t, banner_except(tasks[t]), fs)
       \/ \E g \in cleanup_temp_files(fs, FailedBannerPaths(tasks[t])) :
            Suspend(t, Done([tasks[t] EXCEPT
                        !.residue = Residue(fs, g, {tasks[t].banner_path},
                                            FailedBannerPaths(tasks[t]))],
                      "download_failed", FALSE), g)

\* Lines 392-400: the banner is reported ready and the video is awaited.
handle_banner_stored(t) ==
    /\ tasks[t].pc = "hb_ok_edit"
    /\ \/ Suspend(t, banner_except(tasks[t]), fs)
       \/ Commit([user_states EXCEPT ![tasks[t].u] = "WAITING_VIDEO"],
                 user_banners, processing_users,
                 [tasks EXCEPT ![t] = Done(@, "banner_ready", FALSE)],
                 abandoned, fs)

\* Lines 402-405: the error is counted, here or (when the reply raises too)
\* by error_handler.  The except clause releases nothing: a temp file that
\* was not stored stays behind.
handle_banner_error(t) ==
    /\ tasks[t].pc = "hb_exc"
    /\ \E ok \in BOOLEAN :
        Suspend(t, Done([(IF ok THEN CountError(tasks[t]) ELSE tasks[t]) EXCEPT
                           !.residue =
                              IF @ = "leaked" THEN @
                              ELSE Residue(fs, fs,
                                      {tasks[t].banner_path}
                                          \ {user_banners[tasks[t].u]}, {})],
                        "error", ~ok), fs)

\* ----------------------------------------------------------- handle_video
\* Variants of the acceptance test that leave a check out.
VideoCheckNoBanner(st, banner, busy) ==
    IF st # "WAITING_VIDEO" THEN "rejected_state"
    ELSE IF busy THEN "rejected_busy"
    ELSE "accepted"

VideoCheckNoBusy(st, banner, busy) ==
    IF st # "WAITING_VIDEO" THEN "rejected_state"
    ELSE IF banner = NoPath THEN "rejected_no_banner"
    ELSE "accepted"

VideoCheckStateOnly(st, banner, busy) ==
    IF st # "WAITING_VIDEO" THEN "rejected_state" ELSE "accepted"

\* Lines 411-421: the three checks a video has to pass, in their order.
VideoCheck(st, banner, busy) ==
    IF st # "WAITING_VIDEO" THEN "rejected_state"
    ELSE IF banner = NoPath THEN "rejected_no_banner"
    ELSE IF busy THEN "rejected_busy"
    ELSE "accepted"

\* A size check that turns away a video of just the limit too.
SizeExceededFromLimit(file_size) == file_size >= MAX_FILE_SIZE

\* Lines 440-441: the size check.
SizeExceeded(file_size) == file_size > MAX_FILE_SIZE

\* A finally clause that forgets the output path.
FinallyPathsNoOutput(tk, ub) == {tk.video_path, ub[tk.u]}

\* Line 587-589: what the finally clause hands to cleanup_temp_files.
FinallyPaths(tk, ub) == {tk.video_path, tk.output_path, ub[tk.u]}

\* The files the job has to release: its temp files and the stored banner.
JobPaths(tk, ub) == {tk.video_path, tk.output_path, ub[tk.u]}

\* Lines 585-593, the finally clause, and the end of the handler: the temp
\* files and the stored banner are released, the banner entry and the busy
\* flag deleted.  `st` is user_states as the handler leaves it.
\* A finally clause that leaves the busy flag set.
ReleaseBusyKept(pu, u) == pu

\* Lines 592-593: del self.processing_users[user_id]
ReleaseBusy(pu, u) == pu \ {u}

Finally(t, tk, outcome, escaped, st) ==
    \E g \in cleanup_temp_files(fs, FinallyPaths(tk, user_banners)) :
        Commit(st,
               ReleaseBanner(user_banners, tk.u),
               ReleaseBusy(processing_users, tk.u),
               [tasks EXCEPT ![t] =
                  Done([tk EXCEPT
                          !.residue = Residue(fs, g, JobPaths(tk, user_banners),
                                              FinallyPaths(tk, user_banners))],
                       outcome, escaped)],
               abandoned, g)

\* Lines 409-458 (filters.VIDEO, or handle_document for a video document): a
\* video that fails a check is told so (outside the try: a failing reply
\* leaves the handler); an accepted one makes the user busy, and is either
\* over the size limit or announced.  file_size is optional in a video
\* message: compared as None it raises TypeError, inside the try.
handle_video(t, u) ==
    /\ FreeSlot(t)
    /\ LET r == VideoCheck(user_states[u], user_banners[u], u \in processing_users)
       IN  IF r # "accepted"
           THEN /\ \E ok \in BOOLEAN :
                     tasks' = [tasks EXCEPT ![t] =
                        Done([NoTask EXCEPT !.h = "video", !.u = u], r, ~ok)]
                /\ UNCHANGED <<user_states, processing_users>>
           ELSE /\ processing_users' = processing_users \cup {u}
                /\ user_states' = [user_states EXCEPT ![u] = "PROCESSING"]
                /\ \E file_size \in FileSizes \cup {NoSize} :
                     tasks' = [tasks EXCEPT ![t] =
                        [NoTask EXCEPT !.h = "video", !.u = u, !.accepted = TRUE,
                                       !.file_size = file_size,
                                       !.pc = IF file_size = NoSize THEN "hv_exc"
                                              ELSE IF SizeExceeded(file_size)
                                              THEN "hv_size_reply" ELSE "hv_msg"]]
    /\ UNCHANGED <<user_banners, user_client, fs, abandoned, stats>>

\* Lines 442-445: the size-exceeded reply is out.
handle_video_size(t) ==
    /\ tasks[t].pc = "hv_size_reply"
    /\ \/ Suspend(t, video_except(tasks[t]), fs)
       \/ Finally(t, tasks[t], "size_exceeded", FALSE, user_states)

\* Lines 451-496: the status message is out; the two temp files are created
\* and the download starts.
handle_video_download(t) ==
    /\ tasks[t].pc = "hv_msg"
    /\ \/ Suspend(t, video_except(tasks[t]), fs)
       \/ /\ Cardinality(FreePaths) >= 2
          /\ LET v == NewTempName(FreePaths)
                 o == NewTempName(FreePaths \ {v})
             IN  Suspend(t, BeginDownload([tasks[t] EXCEPT !.video_path = v,
                                                         !.output_path = o], user_client),
                         [fs EXCEPT ![v] = TRUE, ![o] = TRUE])

\* Lines 498-500: the download failure is reported.
handle_video_download_failed(t) ==
    /\ tasks[t].pc = "hv_dlfail_edit"
    /\ \/ Suspend(t, video_except(tasks[t]), fs)
       \/ Finally(t, tasks[t], "download_failed", FALSE, user_states)

\* Lines 507-522: the status message is edited and run_ffmpeg handed to the
\* executor; the handler waits for it, 300 seconds at most.
handle_video_transcode(t) ==
    /\ tasks[t].pc = "hv_proc_edit"
    /\ \/ Suspend(t, video_except(tasks[t]), fs)
       \/ Suspend(t, [tasks[t] EXCEPT !.pc = "hv_ffmpeg", !.dest = ""], fs)

\* A success test that reads ffmpeg's exit status only.
TranscodeExitOnly(success, w) == success

\* Line 529: the transcode counts only if ffmpeg exited with 0 and the
\* output is there and not empty.
TranscodeResult(success, w) == success /\ ExistsNonEmpty(w)

\* Lines 263-276 and 519-541, 573: run_ffmpeg_ultra_fast returned within
\* the 300 seconds, with ffmpeg's exit status (False as well when its own
\* 600 seconds ran out or it could not be started) and `w` at the output
\* path; a success is entered in the statistics; the handler reports the
\* result.
handle_video_transcoded(t) ==
    /\ tasks[t].pc = "hv_ffmpeg"
    /\ \E success \in BOOLEAN, w \in FileStates :
        IF TranscodeResult(success, w)
        THEN /\ stats.processed_videos < MaxProcessed
             /\ \E size \in OutputSizes, total_time \in Elapsed :
                    CommitStats(user_states, user_banners, processing_users,
                        [tasks EXCEPT ![t] =
                            [@ EXCEPT !.pc = "hv_upload", !.output_size = size,
                                      !.total_time = total_time]],
                        abandoned, Written(fs, tasks[t].output_path, w),
                        Recorded(stats, total_time, tasks[t].file_size))
        ELSE Suspend(t, [tasks[t] EXCEPT !.pc = "hv_fail_edit"],
                     Written(fs, tasks[t].output_path, w))

\* A handler that reports a passed deadline like a failed transcode.
DeadlineAsFailure(tk) == [tk EXCEPT !.pc = "hv_fail_edit"]

\* Lines 523-524: asyncio.TimeoutError has its own clause, which sends the
\* timeout message and returns.
DeadlineBranch(tk) == [tk EXCEPT !.pc = "hv_timeout_edit"]

\* Lines 518-524: the 300 seconds are over first.  wait_for gives up the
\* future; the worker thread and its ffmpeg run on.
handle_video_timeout(t) ==
    /\ tasks[t].pc = "hv_ffmpeg"
    /\ Cardinality(abandoned) < MaxAbandoned
    /\ Commit(user_states, user_banners, processing_users,
              [tasks EXCEPT ![t] = DeadlineBranch(@)],
              abandoned \cup {tasks[t].output_path}, fs)

\* A pool worker whose transcoder never ends.
WorkerBlocked(ab, p) == ab

\* Lines 263-276: subprocess.run returns or raises TimeoutExpired, and
\* run_ffmpeg_ultra_fast returns: the pool worker is free.
WorkerFreed(ab, p) == ab \ {p}

\* Lines 263-276: a transcoder nobody waits for any more ends (at its own
\* 600 seconds at the latest); `w` is what it leaves at its output path.
ffmpeg_abandoned(p) ==
    /\ p \in abandoned
    /\ \E w \in FileStates :
        Commit(user_states, user_banners, processing_users, tasks,
               WorkerFreed(abandoned, p), Written(fs, p, w))

\* Lines 524-525: the timeout is reported.
handle_video_timed_out(t) ==
    /\ tasks[t].pc = "hv_timeout_edit"
    /\ \/ Suspend(t, video_except(tasks[t]), fs)
       \/ Finally(t, tasks[t], "timeout", FALSE, user_states)

\* Lines 573-577: the transcode failure is reported and counted.
handle_video_failed(t) ==
    /\ tasks[t].pc = "hv_fail_edit"
    /\ \/ Suspend(t, video_except(tasks[t]), fs)
       \/ Finally(t, CountError(tasks[t]), "transcode_failed", FALSE, user_states)

\* A handler that sends an output of just the threshold as a document too.
AttachmentFromThreshold(output_size) ==
    IF output_size >= DocumentThreshold THEN "document" ELSE "video"

\* Lines 556-567: reply_document above the threshold, reply_video otherwise.
Attachment(output_size) ==
    IF output_size > DocumentThreshold THEN "document" ELSE "video"

\* Lines 536-567: the result is announced, read and sent; an exception of
\* edit_text, of the read or of the send ends the try block.
handle_video_upload(t) ==
    /\ tasks[t].pc = "hv_upload"
    /\ \/ Suspend(t, video_except(tasks[t]), fs)
       \/ Suspend(t, [tasks[t] EXCEPT !.pc = "hv_delete",
                                     !.sent = Attachment(tasks[t].output_size)], fs)

\* Lines 569-570: the status message is deleted and the session reset.
handle_video_delivered(t) ==
    /\ tasks[t].pc = "hv_delete"
    /\ \/ Suspend(t, video_except(tasks[t]), fs)
       \/ Finally(t, tasks[t], "success", FALSE,
                  [user_states EXCEPT ![tasks[t].u] = "IDLE"])

\* Lines 579-583: the error is counted, here or (when the reply raises too)
\* by error_handler; the finally clause runs either way.
handle_video_error(t) ==
    /\ tasks[t].pc = "hv_exc"
    /\ \E ok \in BOOLEAN :
        Finally(t, IF ok THEN CountError(tasks[t]) ELSE tasks[t], "error", ~ok, user_states)

\* --------------------------------------- handle_wrong_content, handle_document
\* Lines 636-654: the user is told what is expected.
handle_wrong_content(t, u) ==
    /\ FreeSlot(t)
    /\ \E ok \in BOOLEAN :
        tasks' = [tasks EXCEPT ![t] =
            Done([NoTask EXCEPT !.h = "wrong_content", !.u = u], "wrong_content", ~ok)]
    /\ UNCHANGED <<user_states, user_banners, processing_users, user_client, fs,
                   abandoned, stats>>

\* Lines 595-616: a document goes to handle_video when a video is awaited
\* and it is one, to handle_banner when a banner is awaited and it is an
\* image, and is wrong content otherwise.
handle_document(t, u) ==
    \E mime \in {"video", "image", "other"} :
        IF user_states[u] = "WAITING_VIDEO" /\ mime = "video" THEN handle_video(t, u)
        ELSE IF user_states[u] = "WAITING_BANNER" /\ mime = "image" THEN handle_banner(t, u)
        ELSE handle_wrong_content(t, u)

\* ------------------------------------------------------------- dispatcher
\* The dispatcher drops a finished invocation.
Return(t) ==
    /\ tasks[t].pc = "done"
    /\ tasks' = [tasks EXCEPT ![t] = NoTask]
    /\ UNCHANGED <<user_states, user_banners, processing_users, user_client,
                   fs, abandoned, stats>>

Next ==
    \/ \E t \in Slots, u \in Active : start_command(t, u)
    \/ \E t \in Slots : start_command_resume(t)
    \/ \E t \in Slots, u \in Active : button_callback(t, u)
    \/ \E t \in Slots : button_callback_resume(t)
    \/ \E t \in Slots, u \in Active : handle_banner(t, u)
    \/ \E t \in Slots : handle_banner_download(t)
    \/ \E t \in Slots : handle_banner_failed(t)
    \/ \E t \in Slots : handle_banner_stored(t)
    \/ \E t \in Slots : handle_banner_error(t)
    \/ \E t \in Slots, u \in Active : handle_video(t, u)
    \/ \E t \in Slots : handle_video_size(t)
    \/ \E t \in Slots : handle_video_download(t)
    \/ \E t \in Slots : handle_video_download_failed(t)
    \/ \E t \in Slots : handle_video_transcode(t)
    \/ \E t \in Slots : handle_video_transcoded(t)
    \/ \E t \in Slots : handle_video_timeout(t)
    \/ \E t \in Slots : handle_video_timed_out(t)
    \/ \E t \in Slots : handle_video_failed(t)
    \/ \E t \in Slots : handle_video_upload(t)
    \/ \E t \in Slots : handle_video_delivered(t)
    \/ \E t \in Slots : handle_video_error(t)
    \/ \E p \in Paths : ffmpeg_abandoned(p)
    \/ \E t \in Slots, u \in Active : handle_document(t, u)
    \/ \E t \in Slots, u \in Active : handle_wrong_content(t, u)
    \/ \E t \in Slots : download_get_messages(t)
    \/ \E t \in Slots : download_media(t)
    \/ \E t \in Slots : download_sleep(t)
    \/ \E t \in Slots : download_bot_api(t)
    \/ \E t \in Slots : Return(t)

Spec == Init /\ [][Next]_vars

\* ------------------------------------------------- the application of run()
\* Lines 872-894: the application is built without concurrent_updates and
\* every handler is registered blocking, so the update fetcher awaits the
\* handler of one update before it takes the next from the queue.
DispatcherFree == \A s \in Slots : Idle(s)

\* Lines 884-891: the next update, one of user `u`, goes to its handler.
process_update(t, u) ==
    /\ DispatcherFree
    /\ \/ start_command(t, u)
       \/ button_callback(t, u)
       \/ handle_banner(t, u)
       \/ handle_video(t, u)
       \/ handle_document(t, u)
       \/ handle_wrong_content(t, u)

\* The handler in slot `t` is resumed at the await it is suspended in.
Resume(t) ==
    \/ start_command_resume(t)
    \/ button_callback_resume(t)
    \/ handle_banner_download(t)
    \/ handle_banner_failed(t)
    \/ handle_banner_stored(t)
    \/ handle_banner_error(t)
    \/ handle_video_size(t)
    \/ handle_video_download(t)
    \/ handle_video_download_failed(t)
    \/ handle_video_transcode(t)
    \/ handle_video_transcoded(t)
    \/ handle_video_timeout(t)
    \/ handle_video_timed_out(t)
    \/ handle_video_failed(t)
    \/ handle_video_upload(t)
    \/ handle_video_delivered(t)
    \/ handle_video_error(t)
    \/ download_get_messages(t)
    \/ download_media(t)
    \/ download_sleep(t)
    \/ download_bot_api(t)

NextSequential ==
    \/ \E t \in Slots, u \in Users : process_update(t, u)
    \/ \E t \in Slots : Resume(t)
    \/ \E p \in Paths : ffmpeg_abandoned(p)
    \/ \E t \in Slots : Return(t)

SpecSequential == Init /\ [][NextSequential]_vars

\* ---------------------------------------------- the application, counting
\* Lines 94-113: the bot after construction, its SystemStats new.
InitStats ==
    /\ user_states = [u \in Users |-> Unset]
    /\ user_banners = [u \in Users |-> NoPath]
    /\ processing_users = {}
    /\ user_client \in BOOLEAN
    /\ fs = [p \in Paths |-> FALSE]
    /\ tasks = [t \in Slots |-> NoTask]
    /\ abandoned = {}
    /\ stats = SystemStats

\* The application of run() with its counters followed.
SpecStats == InitStats /\ [][NextSequential]_vars

\* ---------------------------------------------- cleanup_temp_files, alone
\* A loop that gives up at the first os.unlink that raises.
RECURSIVE unlink_until_failure(_, _, _)
unlink_until_failure(f, file_paths, tried) ==
    IF file_paths = << >> THEN {[fs |-> f, tried |-> tried]}
    ELSE LET file_path == Head(file_paths)
         IN  IF file_path # NoPath /\ f[file_path]
             THEN unlink_until_failure([f EXCEPT ![file_path] = FALSE],
                                       Tail(file_paths), Append(tried, file_path))
                  \cup {[fs |-> f, tried |-> Append(tried, file_path)]}
             ELSE unlink_until_failure(f, Tail(file_paths), tried)

RECURSIVE unlink_each(_, _, _)
\* Lines 280-285, the loop as written: a path that is not None and exists
\* is unlinked; os.unlink removes the file, or raises, which is logged, and
\* the loop goes on.  `tried` lists the paths os.unlink was called on.  The
\* result is every temp directory, with the calls made, the loop can end in.
unlink_each(f, file_paths, tried) ==
    IF file_paths = << >> THEN {[fs |-> f, tried |-> tried]}
    ELSE LET file_path == Head(file_paths)
         IN  IF file_path # NoPath /\ f[file_path]
             THEN unlink_each([f EXCEPT ![file_path] = FALSE],
                              Tail(file_paths), Append(tried, file_path))
                  \cup unlink_each(f, Tail(file_paths), Append(tried, file_path))
             ELSE unlink_each(f, Tail(file_paths), tried)

\* Lines 587-589: the paths a finally clause hands over, as they come.
FilePaths(tk) == <<tk.video_path, tk.output_path, tk.banner_path>>

\* A finally clause about to release, with any locals (None, the name of a
\* file that is there, the name of one that is not) and any temp directory.
InitCleanup ==
    /\ user_states = [u \in Users |-> Unset]
    /\ user_banners = [u \in Users |-> NoPath]
    /\ processing_users = {}
    /\ user_client = FALSE
    /\ fs \in [Paths -> BOOLEAN]
    /\ tasks \in {[t \in Slots |->
                     IF t = 1
                     THEN [NoTask EXCEPT !.h = "video", !.u = "A", !.pc = "cleanup",
                                         !.video_path = v, !.output_path = o,
                                         !.banner_path = b]
                     ELSE NoTask] :
                  v \in Paths \cup {NoPath}, o \in Paths \cup {NoPath},
                  b \in Paths \cup {NoPath}}
    /\ abandoned = {}
    /\ stats = Untracked

\* Lines 278-285: the call runs and returns; tasks[t].log keeps the paths it
\* called os.unlink on.
cleanup_call(t) ==
    /\ tasks[t].pc = "cleanup"
    /\ \E r \in unlink_each(fs, FilePaths(tasks[t]), << >>) :
          /\ fs' = r.fs
          /\ tasks' = [tasks EXCEPT ![t].pc = "cleaned", ![t].log = r.tried]
    /\ UNCHANGED <<user_states, user_banners, processing_users, user_client,
                   abandoned, stats>>

NextCleanup == \E t \in Slots : cleanup_call(t)

SpecCleanup == InitCleanup /\ [][NextCleanup]_vars

\* ================================================================ claims
\* Slot `t` takes up a handler `h` in this step.
Enters(t, h) == tasks[t].h = "none" /\ tasks'[t].h = h

\* The handler invocation in slot `t` ends in this step.
Ends(t) == tasks[t].pc # "done" /\ tasks'[t].pc = "done"

\* An accepted job of handle_video ends in this step.
JobEnds(t) == Ends(t) /\ tasks'[t].h = "video" /\ tasks'[t].accepted

\* The accepted jobs of user `u` that have not ended.
JobsInFlight(u) ==
    {t \in Slots : tasks[t].h = "video" /\ tasks[t].u = u /\ tasks[t].accepted
                   /\ tasks[t].pc # "done"}

\* ---- C1
\* C1: handle_video starts a job (state PROCESSING, user in processing_users)
\* if and only if at handler entry the user's state is WAITING_VIDEO, a banner
\* path is stored for the user and the user is not in processing_users; a
\* video it does not accept leaves the state and the busy flag alone.
C1_JobStartsIffReady ==
    [][\A t \in Slots : Enters(t, "video") =>
          LET u == tasks'[t].u
          IN  /\ tasks'[t].accepted <=>
                    (/\ user_states[u] = "WAITING_VIDEO"
                     /\ user_banners[u] # NoPath
                     /\ u \notin processing_users)
              /\ tasks'[t].accepted =>
                    (user_states'[u] = "PROCESSING" /\ u \in processing_users')
              /\ ~tasks'[t].accepted =>
                    (user_states'[u] = user_states[u]
                     /\ processing_users' = processing_users)]_vars

\* C1 witness: a job has just been started.
C1_JobStarted ==
    \E t \in Slots :
        /\ tasks[t].h = "video" /\ tasks[t].accepted /\ tasks[t].pc = "hv_msg"
        /\ user_states[tasks[t].u] = "PROCESSING"
        /\ tasks[t].u \in processing_users
        /\ user_banners[tasks[t].u] # NoPath

\* ---- C2
\* C2: when an accepted job of handle_video ends, by any outcome, the user's
\* session state is IDLE.
C2_JobEndsIdle ==
    [][\A t \in Slots : JobEnds(t) => user_states'[tasks'[t].u] = "IDLE"]_vars

\* ---- C3
\* C3, as amended: when handle_video returns from an accepted job, by any
\* outcome, the user has no entry in user_banners and is not in
\* processing_users, and the job's video temp file, its output temp file and
\* the banner file stored for the user when the cleanup ran are gone from the
\* disk, except those on which os.unlink raised.
C3_ReleasedAtReturn ==
    [][\A t \in Slots : JobEnds(t) =>
          /\ tasks'[t].residue # "leaked"
          /\ user_banners'[tasks'[t].u] = NoPath
          /\ tasks'[t].u \notin processing_users']_vars

\* C3 witness: a job has returned and left only files os.unlink raised on.
C3_JobReturnedUnlinkFailed ==
    \E t \in Slots :
        /\ tasks[t].h = "video" /\ tasks[t].accepted /\ tasks[t].pc = "done"
        /\ tasks[t].outcome = "timeout"
        /\ tasks[t].residue = "unlink_failed"
        /\ user_banners[tasks[t].u] = NoPath
        /\ tasks[t].u \notin processing_users

\* C3 as stated: when handle_video returns from an accepted job the three
\* files do not exist, and the user has no banner entry and is not busy.
C3_AbsentAtReturn ==
    [][\A t \in Slots : JobEnds(t) =>
          /\ tasks'[t].residue = "clean"
          /\ user_banners'[tasks'[t].u] = NoPath
          /\ tasks'[t].u \notin processing_users']_vars

\* ---- C4
\* C4: under every interleaving at most one job of a user is between its
\* acceptance and the end of its finally clause, the user is in
\* processing_users for as long as it is, and a video that was not accepted
\* is over at once: nothing keeps it for later.
C4_OneJobPerUser ==
    /\ \A u \in Users :
          /\ Cardinality(JobsInFlight(u)) <= 1
          /\ JobsInFlight(u) # {} => u \in processing_users
    /\ \A t \in Slots :
          tasks[t].h = "video" /\ ~tasks[t].accepted => tasks[t].pc = "done"

\* C4 witness: a video of a user was turned away while a job of the same
\* user is transcoding.
C4_SecondVideoTurnedAway ==
    \E t \in Slots, s \in Slots :
        /\ t \in JobsInFlight(tasks[t].u) /\ tasks[t].pc = "hv_ffmpeg"
        /\ tasks[s].h = "video" /\ tasks[s].u = tasks[t].u
        /\ ~tasks[s].accepted /\ tasks[s].pc = "done"
        /\ tasks[s].outcome \in {"rejected_state", "rejected_busy"}

\* ---- C5
\* C5: a video that arrives for a user in processing_users is rejected in
\* the entry step: it is not accepted, no download starts, no temp file is
\* created, and processing_users, user_states and user_banners are unchanged.
C5_BusyVideoRejected ==
    [][\A t \in Slots :
          Enters(t, "video") /\ tasks'[t].u \in processing_users =>
              /\ ~tasks'[t].accepted
              /\ tasks'[t].pc = "done"
              /\ tasks'[t].log = << >>
              /\ tasks'[t].video_path = NoPath /\ tasks'[t].output_path = NoPath
              /\ UNCHANGED <<processing_users, user_states, user_banners, fs>>]_vars

\* C5 witness: a video was rejected by the busy check, in state
\* WAITING_VIDEO with a banner stored.
C5_RejectedByBusyCheck ==
    \E t \in Slots :
        /\ tasks[t].h = "video" /\ tasks[t].pc = "done"
        /\ tasks[t].outcome = "rejected_busy" /\ ~tasks[t].escaped
        /\ tasks[t].u \in processing_users
        /\ user_states[tasks[t].u] = "WAITING_VIDEO"
        /\ user_banners[tasks[t].u] # NoPath

C7_BannerStoredThenVideoAwaited ==
    [][\A t \in Slots :
          /\ Enters(t, "banner") =>
                /\ tasks'[t].accepted <=> user_states[tasks'[t].u] = "WAITING_BANNER"
                /\ ~tasks'[t].accepted =>
                      UNCHANGED <<user_states, user_banners, processing_users>>
          /\ (/\ Ends(t) /\ tasks'[t].h = "banner"
              /\ tasks[t].banner_path # NoPath
              /\ user_banners[tasks[t].u] = tasks[t].banner_path) =>
                 user_states'[tasks'[t].u] = "WAITING_VIDEO"]_vars

\* ---- C8
\* No handler invocation of user `u` is under way.
Quiet(u) == \A t \in Slots : tasks[t].u = u => tasks[t].pc = "done"

\* C8: whenever no handler of a user is under way, a banner path is stored
\* for the user only if the user's state is WAITING_VIDEO or PROCESSING.
C8_BannerOnlyWhileVideoAwaited ==
    \A u \in Users :
        Quiet(u) /\ user_banners[u] # NoPath =>
            user_states[u] \in {"WAITING_VIDEO", "PROCESSING"}

\* ---- C9
Count(l, x) == Cardinality({i \in 1..Len(l) : l[i] = x})

\* The transport calls of one smart_download call so far are in order.
TransportsInOrder(l) ==
    /\ Count(l, "get") <= 1 /\ Count(l, "media") <= 1
    /\ Count(l, "sleep") <= 1 /\ Count(l, "bot") <= 1
    /\ \A i \in 1..Len(l) :
          /\ l[i] = "get" => i = 1 /\ user_client
          /\ l[i] = "media" => i = 2 /\ l[1] = "get"
          /\ l[i] = "sleep" => i > 1 /\ l[1] = "get"
                               /\ \A j \in (i + 1)..Len(l) : l[j] = "bot"
          /\ l[i] = "bot" => i = Len(l)
                             /\ IF user_client THEN i > 1 /\ l[1] = "get" ELSE i = 1

\* C9: within one smart_download call the user client is attempted at most
\* once and the Bot API at most once; the Bot API is attempted only when
\* there is no user client or after its one attempt failed; after a
\* FloodWait the call sleeps, does not go back to the user client, and goes
\* on with the Bot API.
C9_FallbackOrder ==
    /\ [](\A t \in Slots : TransportsInOrder(tasks[t].log))
    /\ [][\A t \in Slots :
            tasks[t].pc = "dl_sleep" /\ tasks'[t].pc # "dl_sleep" =>
                tasks'[t].pc = "dl_bot" /\ tasks'[t].log = Append(tasks[t].log, "bot")]_vars

\* C9 witness: download_media raised FloodWait, the call slept and is now
\* in the Bot API.
C9_BotApiAfterFloodWait ==
    \E t \in Slots :
        tasks[t].pc = "dl_bot" /\ tasks[t].log = <<"get", "media", "sleep", "bot">>

ReturnedTrue(tk) ==
    tk.pc \in {"hb_ok_edit", "hv_proc_edit"} \/ (tk.pc = "hv_exc" /\ tk.dest # "")

\* smart_download has handed False to the caller suspended as `tk`.
ReturnedFalse(tk) == tk.pc \in {"hb_fail_edit", "hv_dlfail_edit"}

\* C11: smart_download returns true only if the destination file is there
\* and not empty when it returns; a user client attempt that does not leave
\* that goes on to the Bot API (after the sleep, on FloodWait); a Bot API
\* attempt that does not leave that makes the call return false, and false
\* is returned only after the Bot API attempt, which is the second attempt
\* when there is a user client.
C11_TrueOnlyIfNonEmpty ==
    [][\A t \in Slots :
          /\ tasks[t].pc \in {"dl_media", "dl_bot"} /\ ReturnedTrue(tasks'[t]) =>
                /\ tasks'[t].dest = "data"
                /\ Exists(fs', Dest(tasks'[t]))
          /\ tasks[t].pc = "dl_media" /\ tasks'[t].pc # "dl_media" =>
                \/ ReturnedTrue(tasks'[t])
                \/ tasks'[t].pc \in {"dl_bot", "dl_sleep"}
          /\ tasks[t].pc = "dl_bot" /\ tasks'[t].pc # "dl_bot" =>
                /\ ReturnedTrue(tasks'[t]) \/ ReturnedFalse(tasks'[t])
                /\ tasks'[t].dest # "data" => ReturnedFalse(tasks'[t])
          /\ ReturnedFalse(tasks'[t]) /\ ~ReturnedFalse(tasks[t]) =>
                /\ tasks[t].pc = "dl_bot"
                /\ user_client => tasks[t].log[1] = "get"]_vars

\* C11 witness: with a user client, a video download has returned false with
\* a zero-byte file at the destination.
C11_ZeroByteIsFailure ==
    /\ user_client
    /\ \E t \in Slots :
          /\ tasks[t].h = "video" /\ tasks[t].pc = "hv_dlfail_edit"
          /\ tasks[t].dest = "empty"
          /\ fs[tasks[t].video_path]

\* ---- C12
\* C12, as amended: when the 300 seconds are over before the transcode
\* worker has returned, handle_video stops waiting in that step and leaves
\* the worker running; it is then in the timeout clause, not in the clause
\* for a failed transcode (which is entered only when the worker returned),
\* and from there the job ends with the outcome "timeout", unless sending
\* the timeout message raises and the except clause takes over.
C12_TimeoutClassified ==
    [][\A t \in Slots :
          /\ tasks[t].pc = "hv_ffmpeg" /\ tasks'[t].pc # "hv_ffmpeg" =>
                \/ /\ tasks'[t].pc \in {"hv_upload", "hv_fail_edit"}
                   /\ Cardinality(abandoned') <= Cardinality(abandoned)
                \/ /\ tasks'[t].pc = "hv_timeout_edit"
                   /\ tasks'[t].output_path \in abandoned'
                   /\ Cardinality(abandoned') = Cardinality(abandoned) + 1
          /\ tasks[t].pc = "hv_timeout_edit" /\ tasks'[t].pc # "hv_timeout_edit" =>
                \/ JobEnds(t) /\ tasks'[t].outcome = "timeout"
                \/ tasks'[t].pc = "hv_exc"
          /\ JobEnds(t) /\ tasks'[t].outcome = "timeout" =>
                tasks[t].pc = "hv_timeout_edit"
          /\ JobEnds(t) /\ tasks'[t].outcome = "transcode_failed" =>
                tasks[t].pc = "hv_fail_edit"]_vars

\* C12 witness: a job has ended with the outcome "timeout" and released the
\* user while the transcoder it started is still running.
C12_EndedWhileWorkerRuns ==
    \E t \in Slots :
        /\ tasks[t].h = "video" /\ tasks[t].pc = "done"
        /\ tasks[t].outcome = "timeout"
        /\ abandoned # {}
        /\ tasks[t].u \notin processing_users
        /\ \A s \in Slots \ {t} : tasks[s].h = "none"

\* C12 as stated: once the deadline has passed the job ends with the
\* outcome "timeout".
C12_TimeoutOutcomeAlways ==
    [][\A t \in Slots :
          tasks[t].pc = "hv_timeout_edit" /\ tasks'[t].pc # "hv_timeout_edit" =>
              JobEnds(t) /\ tasks'[t].outcome = "timeout"]_vars

\* ---- C13
\* C13: an accepted job that ends in failure (size exceeded, download
\* failed, transcode failed, timeout, unexpected error) has incremented
\* errors_count exactly once, and a video that was rejected, with the
\* rejection sent, has not incremented it.
C13_FailureCountedOnce ==
    [][\A t \in Slots :
          /\ JobEnds(t) /\ tasks'[t].outcome # "success" => tasks'[t].errors = 1
          /\ (/\ Ends(t) /\ tasks'[t].h = "video"
              /\ ~tasks'[t].accepted /\ ~tasks'[t].escaped) =>
                 tasks'[t].errors = 0]_vars

\* ---- C14
\* C14: no exception leaves handle_video: whatever call fails before or
\* during a job, the invocation ends inside the handler.
C14_NothingEscapes ==
    \A t \in Slots : tasks[t].h = "video" => ~tasks[t].escaped

\* ---- C15
\* The job in `tk` is in its download phase or its transcode phase.
DownloadOrTranscode(tk) ==
    /\ tk.h = "video" /\ tk.accepted
    /\ tk.pc \in {"dl_get", "dl_media", "dl_sleep", "dl_bot", "hv_ffmpeg"}

\* C15: while the job of one user is in its download phase or its transcode
\* phase, the dispatcher can take up an update of any other user.
C15_OtherUsersNotBlocked ==
    \A t \in Slots :
        DownloadOrTranscode(tasks[t]) =>
            \A u \in Users \ {tasks[t].u} :
                ENABLED (\E s \in Slots : process_update(s, u))

\* ---- C16
\* Another handler invocation than the one in slot `t` takes this step.
OtherInvocationSteps(t) ==
    /\ tasks'[t].pc = tasks[t].pc /\ tasks'[t].h = tasks[t].h
    /\ \E s \in Slots \ {t} :
          tasks'[s].pc # tasks[s].pc \/ tasks'[s].h # tasks[s].h

C17_OneAttachmentBySize ==
    [][\A t \in Slots :
          /\ tasks[t].pc = "hv_upload" /\ tasks'[t].pc # "hv_upload" =>
                \/ /\ tasks'[t].pc = "hv_delete"
                   /\ tasks[t].output_size > DocumentThreshold =>
                         tasks'[t].sent = "document"
                   /\ tasks[t].output_size <= DocumentThreshold =>
                         tasks'[t].sent = "video"
                \/ tasks'[t].pc = "hv_exc" /\ tasks'[t].sent = ""
          /\ tasks'[t].sent # tasks[t].sent /\ tasks'[t].sent # "" =>
                tasks[t].pc = "hv_upload" /\ tasks[t].sent = ""
          /\ JobEnds(t) /\ tasks'[t].outcome = "success" =>
                tasks[t].sent \in {"document", "video"}]_vars

\* C17 witness: an output of just 50 MiB went out as a video.
C17_VideoAtThreshold ==
    \E t \in Slots :
        /\ tasks[t].pc = "hv_delete" /\ tasks[t].sent = "video"
        /\ tasks[t].output_size = DocumentThreshold

\* C17 as stated: every job whose transcode succeeded with a non-empty
\* output sends one attachment, a document above 50 MiB and a video
\* otherwise.
C17_AlwaysOneAttachment ==
    [][\A t \in Slots :
          tasks[t].pc = "hv_upload" /\ tasks'[t].pc # "hv_upload" =>
              tasks'[t].sent =
                  (IF tasks[t].output_size > DocumentThreshold THEN "document"
                   ELSE "video")]_vars

\* ---- C18
\* The invocation `tk` has a temp file, or is in the downloader or the
\* transcoder, or past them.
PastSizeCheck(tk) ==
    \/ tk.video_path # NoPath \/ tk.output_path # NoPath
    \/ tk.log # << >>
    \/ tk.pc \in {"hv_msg", "dl_get", "dl_media", "dl_sleep", "dl_bot",
                  "hv_dlfail_edit", "hv_proc_edit", "hv_ffmpeg", "hv_timeout_edit",
                  "hv_fail_edit", "hv_upload", "hv_delete"}

\* C18: an accepted video whose reported size is above MAX_FILE_SIZE is
\* answered with the size-exceeded reply in the entry step, with no temp
\* file created and nothing downloaded, and never gets a temp file, into
\* the downloader or into the transcoder afterwards; one whose size is at
\* most MAX_FILE_SIZE passes the size check.
C18_SizeCheckedFirst ==
    /\ [](\A t \in Slots :
            tasks[t].h = "video" /\ PastSizeCheck(tasks[t]) =>
                tasks[t].file_size \in 0..MAX_FILE_SIZE)
    /\ [][\A t \in Slots :
            /\ Enters(t, "video") /\ tasks'[t].file_size > MAX_FILE_SIZE =>
                  /\ tasks'[t].pc = "hv_size_reply"
                  /\ fs' = fs
            /\ (/\ Enters(t, "video") /\ tasks'[t].accepted
                /\ tasks'[t].file_size \in 0..MAX_FILE_SIZE) =>
                   tasks'[t].pc = "hv_msg"
            /\ tasks[t].pc = "hv_size_reply" /\ tasks'[t].pc # "hv_size_reply" =>
                  \/ JobEnds(t) /\ tasks'[t].outcome = "size_exceeded"
                  \/ tasks'[t].pc = "hv_exc"]_vars

\* C18 witness: a video of just MAX_FILE_SIZE is being downloaded, and a
\* video above it has been turned away.
C18_LimitPassesAboveRejected ==
    \E t \in Slots, s \in Slots :
        /\ tasks[t].h = "video" /\ tasks[t].pc = "dl_bot"
        /\ tasks[t].file_size = MAX_FILE_SIZE
        /\ tasks[s].h = "video" /\ tasks[s].pc = "done"
        /\ tasks[s].outcome = "size_exceeded"

\* ---- C19
\* The sequence `l` is taken from the sequence `a` in its order.
InOrderOf(l, a) ==
    \E m \in [1..Len(l) -> 1..Len(a)] :
        /\ \A j \in 1..Len(l) : a[m[j]] = l[j]
        /\ \A j \in 1..Len(l), k \in 1..Len(l) : j < k => m[j] < m[k]

\* C19: cleanup_temp_files calls os.unlink on every given path that exists,
\* in the order given, whether or not an earlier os.unlink raised, and on
\* nothing else: None and missing paths are skipped.  It always returns; it
\* leaves the temp directory as it was but for files it unlinked.  The temp
\* directories it can leave are those the handlers' steps draw from.
C19_EveryExistingPathTried ==
    /\ [](\A t \in Slots :
            tasks[t].pc = "cleanup" =>
                /\ unlink_each(fs, FilePaths(tasks[t]), << >>) # {}
                /\ {r.fs : r \in unlink_each(fs, FilePaths(tasks[t]), << >>)}
                      = cleanup_temp_files(fs, Range(FilePaths(tasks[t]))))
    /\ [][\A t \in Slots :
            tasks[t].pc = "cleanup" /\ tasks'[t].pc # "cleanup" =>
                LET a == FilePaths(tasks[t])
                    l == tasks'[t].log
                IN  /\ tasks'[t].pc = "cleaned"
                    /\ \A i \in 1..Len(a) : Exists(fs, a[i]) => a[i] \in Range(l)
                    /\ \A p \in Range(l) : p \in Range(a) /\ Exists(fs, p)
                    /\ InOrderOf(l, a)
                    /\ \A p \in Paths :
                          fs'[p] # fs[p] => p \in Range(l) /\ fs[p] /\ ~fs'[p]]_vars

\* C19 witness: of two files given with a None between them, os.unlink
\* raised on the first and the second is gone; a missing one was skipped.
C19_SecondDeletedAfterFailure ==
    \E t \in Slots :
        /\ tasks[t].pc = "cleaned"
        /\ tasks[t].video_path # NoPath /\ tasks[t].output_path = NoPath
        /\ tasks[t].banner_path \notin {NoPath, tasks[t].video_path}
        /\ tasks[t].log = <<tasks[t].video_path, tasks[t].banner_path>>
        /\ fs[tasks[t].video_path] /\ ~fs[tasks[t].banner_path]

\* ---- C20
\* The job in slot `t` reaches the success branch in this step.
ReachesSuccess(t) == tasks[t].pc = "hv_ffmpeg" /\ tasks'[t].pc = "hv_upload"

Larger(a, b) == IF a >= b THEN a ELSE b
Smaller(a, b) == IF a <= b THEN a ELSE b

Scheduled == \A t \in Slots : WF_vars(Resume(t))

SpecScheduled == SpecSequential /\ Scheduled

\* C21: a user put in processing_users is eventually removed from it,
\* whatever the download and the transcode of the job do.
C21_BusyEventuallyReleased ==
    \A u \in Users : (u \in processing_users) ~> (u \notin processing_users)

\* A job that met the outer deadline has ended and its user is free again.
C21_ReleasedAfterDeadline ==
    \E t \in Slots :
        /\ tasks[t].h = "video" /\ tasks[t].accepted
        /\ tasks[t].pc = "done"
        /\ tasks[t].outcome = "timeout"
        /\ processing_users = {}

\* ----------------------------------------- the application, its pool
\* subprocess.run(..., timeout=600) (line 263) ends the transcoder of a pool
\* worker at its own limit, so a run nobody waits for any more ends.
WorkersEnd == WF_vars(\E p \in Paths : ffmpeg_abandoned(p))

SpecPool == SpecSequential /\ WorkersEnd

\* C22: when the outer deadline of a transcode expires the transcoder run of
\* the job is abandoned (it is among the abandoned runs from that step on),
\* and an abandoned run ends, freeing its pool worker: the abandoned runs
\* never stay at their full number for ever.
C22_AbandonedWorkerFreed ==
    /\ [][\A t \in Slots :
            tasks[t].pc = "hv_ffmpeg" /\ tasks'[t].pc = "hv_timeout_edit" =>
                /\ tasks'[t].output_path \in abandoned'
                /\ Cardinality(abandoned') = Cardinality(abandoned) + 1]_vars
    /\ (Cardinality(abandoned) = MaxAbandoned)
           ~> (Cardinality(abandoned) < MaxAbandoned)

\* The job that met the deadline has ended and no abandoned run is left.
C22_WorkerFreeAfterTimeout ==
    \E t \in Slots :
        /\ tasks[t].h = "video" /\ tasks[t].pc = "done"
        /\ tasks[t].outcome = "timeout"
        /\ abandoned = {}

\* ---- C23
\* The edges of the session cycle, and the entry command's reset.
CycleEdges ==
    {<<"IDLE", "WAITING_BANNER">>, <<"WAITING_BANNER", "WAITING_VIDEO">>,
     <<"WAITING_VIDEO", "PROCESSING">>, <<"PROCESSING", "IDLE">>}
        \cup {<<s, "IDLE">> : s \in BotState \cup {Unset}}

\* C23: every change of a user's session state follows an edge of the cycle
\* IDLE, WAITING_BANNER, WAITING_VIDEO, PROCESSING, IDLE, or is a reset to
\* IDLE; no step moves a session otherwise.
C23_OnlyCycleEdges ==
    [][\A u \in Users :
          user_states'[u] # user_states[u] =>
              <<user_states[u], user_states'[u]>> \in CycleEdges]_vars

\* ---- C24
\* C24: within one job the transcoder is started only when the job's
\* download has returned true (the video file there and not empty), an
\* attachment is sent only when the transcoder has reported success and the
\* output file is there and not empty, and the finally clause, which ends
\* the job, releases the busy flag in the one step that ends the job: not
\* before, and once.
C24_PhasesInOrder ==
    [][/\ \A t \in Slots :
            /\ tasks[t].pc # "hv_ffmpeg" /\ tasks'[t].pc = "hv_ffmpeg" =>
                  /\ tasks[t].pc = "hv_proc_edit"
                  /\ ExistsNonEmpty(tasks[t].dest)
            /\ tasks[t].pc # "hv_proc_edit" /\ tasks'[t].pc = "hv_proc_edit" =>
                  tasks[t].pc \in {"dl_media", "dl_bot"}
            /\ tasks[t].pc # "hv_upload" /\ tasks'[t].pc = "hv_upload" =>
                  /\ tasks[t].pc = "hv_ffmpeg"
                  /\ Exists(fs', tasks'[t].output_path)
                  /\ tasks'[t].output_size > 0
            /\ tasks[t].sent = "" /\ tasks'[t].sent # "" =>
                  tasks[t].pc = "hv_upload" /\ tasks'[t].pc = "hv_delete"
            /\ JobEnds(t) =>
                  /\ tasks[t].pc \in {"hv_size_reply", "hv_dlfail_edit",
                                      "hv_timeout_edit", "hv_fail_edit",
                                      "hv_delete", "hv_exc"}
                  /\ tasks[t].u \in processing_users
                  /\ tasks[t].u \notin processing_users'
            /\ tasks[t].h = "video" /\ tasks[t].accepted /\ tasks[t].pc # "done"
                   /\ ~JobEnds(t) => tasks[t].u \in processing_users'
      /\ \A u \in Users :
            u \in processing_users /\ u \notin processing_users' =>
                Cardinality({t \in Slots : JobEnds(t) /\ tasks'[t].u = u}) = 1]_vars

\* A job went through download, transcode and delivery, has ended in
\* success, and nothing of it is left: no temp file, no busy flag.
C24_AllPhasesThenReleased ==
    \E t \in Slots :
        /\ tasks[t].h = "video" /\ tasks[t].pc = "done"
        /\ tasks[t].outcome = "success"
        /\ processing_users = {}
        /\ \A p \in Paths : ~fs[p]

\* ---- C25
\* The job in slot `t` has been entered in the success statistics (line 534)
\* and is on its way to deliver the result.
CountedAsSuccess(tk) == tk.pc \in {"hv_upload", "hv_delete"}

\* C25: an accepted job is counted once and on one side: processed_videos
\* grows by one exactly in the step that takes a job to the success branch,
\* a job entered there ends in success and with no error counted, and a job
\* that ends otherwise has counted one error.
C25_CountedOnOneSide ==
    [][/\ (stats'.processed_videos = stats.processed_videos + 1
              <=> \E t \in Slots : ReachesSuccess(t))
       /\ stats'.processed_videos \in
              {stats.processed_videos, stats.processed_videos + 1}
       /\ \A t \in Slots :
            /\ CountedAsSuccess(tasks[t]) /\ ~CountedAsSuccess(tasks'[t]) =>
                  JobEnds(t) /\ tasks'[t].outcome = "success"
            /\ JobEnds(t) /\ tasks'[t].outcome = "success" =>
                  CountedAsSuccess(tasks[t]) /\ tasks'[t].errors = 0
            /\ JobEnds(t) /\ tasks'[t].outcome # "success" =>
                  ~CountedAsSuccess(tasks[t]) /\ tasks'[t].errors = 1]_vars

\* ------------------------------------------------ the progress sinks alone
\* The size of a download in chunks, and the reports followed in one download.
ProgressTotal == 8
MaxReports == 2
\* Line 367: the step of handle_banner's sink.
ProgressStep == 25

\* Lines 181-184 and int(progress) in the sinks: the percent of `current`
\* bytes out of `total`, cut to an integer.
Percent(current, total) == (current * 100) \div total

\* Lines 366-374, handle_banner's sink: whether edit_text is called for a
\* progress value of integer percent `percent`.
progress_callback(percent) == percent % ProgressStep = 0

\* Lines 480-492, handle_video's sink: edit_text is called for every value.
smart_progress(percent) == TRUE

\* The sink the handler `h` hands to smart_download.
Sink(h, percent) ==
    IF h = "banner" THEN progress_callback(percent) ELSE smart_progress(percent)

\* A download of handle_banner or handle_video about to report progress.
InitProgress ==
    /\ user_states = [u \in Users |-> Unset]
    /\ user_banners = [u \in Users |-> NoPath]
    /\ processing_users = {}
    /\ user_client = TRUE
    /\ fs = [p \in Paths |-> FALSE]
    /\ tasks \in {[t \in Slots |->
                     IF t = 1
                     THEN [NoTask EXCEPT !.h = h, !.u = "A", !.pc = "progress"]
                     ELSE NoTask] : h \in {"banner", "video"}}
    /\ abandoned = {}
    /\ stats = Untracked

\* The sink of the handler suspended as `tk` is called with a percent;
\* tk.log keeps the percent and whether the status message was edited.
Report(tk, percent) ==
    [tk EXCEPT !.log = Append(@, [percent |-> percent,
                                  edited |-> Sink(tk.h, percent)])]

\* Lines 181-184: the user client reports `current` bytes of `total`.
download_progress(t) ==
    /\ tasks[t].pc = "progress"
    /\ Len(tasks[t].log) < MaxReports
    /\ \E current \in 0..ProgressTotal :
          tasks' = [tasks EXCEPT
                       ![t] = Report(@, Percent(current, ProgressTotal))]
    /\ UNCHANGED <<user_states, user_banners, processing_users, user_client,
                   fs, abandoned, stats>>

\* Lines 221-222: the Bot API download reports 100 once it is complete.
bot_api_progress(t) ==
    /\ tasks[t].pc = "progress"
    /\ Len(tasks[t].log) < MaxReports
    /\ tasks' = [tasks EXCEPT ![t] = Report(@, 100)]
    /\ UNCHANGED <<user_states, user_banners, processing_users, user_client,
                   fs, abandoned, stats>>

NextProgress ==
    \/ \E t \in Slots : download_progress(t)
    \/ \E t \in Slots : bot_api_progress(t)

SpecProgress == InitProgress /\ [][NextProgress]_vars

\* ---- C26
\* C26: during a video download the sink edits the status message for the
\* progress values whose integer percent is a multiple of the step, and for
\* no other value.
C26_VideoEditsOnlyAtStep ==
    \A t \in Slots :
        tasks[t].h = "video" /\ tasks[t].pc = "progress" =>
            \A i \in 1..Len(tasks[t].log) :
                tasks[t].log[i].edited <=>
                    tasks[t].log[i].percent % ProgressStep = 0

\* ---- C27
\* C27: in every reachable state a user's session state is PROCESSING
\* exactly when the user is in processing_users.
C27_ProcessingIffBusy ==
    \A u \in Users :
        user_states[u] = "PROCESSING" <=> u \in processing_users

\* ---- C28
\* The transcoder run with output path `p` belongs to a job that has not
\* been through its finally clause.
OwnerInFlight(p) ==
    \E t \in Slots :
        /\ tasks[t].h = "video" /\ tasks[t].pc # "done"
        /\ tasks[t].output_path = p

\* C28: once a job's cleanup has released its temp paths nothing writes them
\* again: no transcoder is still running on the output path of a job whose
\* finally clause has run.
C28_NoWriterAfterCleanup == \A p \in abandoned : OwnerInFlight(p)

\* ---- C29
\* C29: no banner temp file is orphaned: when an invocation of handle_banner
\* ends, by any exit, every banner temp file it created or replaced is the
\* one stored for the user or is gone from the disk (a file os.unlink raised
\* on apart).
C29_NoBannerOrphaned ==
    [][\A t \in Slots :
          Ends(t) /\ tasks'[t].h = "banner" => tasks'[t].residue # "leaked"]_vars

ActsFor(v) ==
    \E t \in Slots :
        /\ tasks'[t] # tasks[t]
        /\ tasks'[t].h # "none"
        /\ tasks'[t].u = v

\* C31: a step that is not a step of a handler invocation of user `v`
\* leaves v's session state, v's busy flag and v's banner entry as they
\* are and does not delete v's banner file; and the banner path handed to
\* the transcoder for a job is the one stored for the job's user, and is
\* stored for no other user.
C31_OtherUsersUntouched ==
    [][/\ \A v \in Users :
            ~ActsFor(v) =>
                /\ user_states'[v] = user_states[v]
                /\ v \in processing_users' <=> v \in processing_users
                /\ user_banners'[v] = NoPath <=> user_banners[v] = NoPath
                /\ Exists(fs', user_banners'[v]) <=> Exists(fs, user_banners[v])
       /\ \A t \in Slots :
            tasks[t].pc # "hv_ffmpeg" /\ tasks'[t].pc = "hv_ffmpeg" =>
                /\ tasks'[t].banner_path # NoPath
                /\ tasks'[t].banner_path = user_banners'[tasks'[t].u]
                /\ \A v \in Users \ {tasks'[t].u} :
                      user_banners'[v] # tasks'[t].banner_path]_vars

\* C31 witness: a job of user A has been through its finally clause while
\* user B has a banner stored, its file there, and waits to send a video.
C31_JobOfAEndedBesideB ==
    \E t \in Slots :
        /\ tasks[t].h = "video" /\ tasks[t].accepted /\ tasks[t].pc = "done"
        /\ tasks[t].u = "A"
        /\ user_banners["A"] = NoPath
        /\ user_states["B"] = "WAITING_VIDEO"
        /\ Exists(fs, user_banners["B"])
====
